---- MODULE Spec2Model ----
(***************************************************************************)
(* Verification model of ha_to_163: the broker session and command bridge  *)
(* (utils/mqtt_client.py), the entity resolver                             *)
(* (device_discovery/ha_discovery.py), the telemetry collector             *)
(* (utils/data_collector.py) and the gateway loop (main.py).               *)
(*                                                                         *)
(* Strings are TLA+ strings; Len, SubSeq and \o work on them character by  *)
(* character, so prefix tests, substring tests, splitting and stripping    *)
(* are computed as the Python code computes them.                          *)
(*                                                                         *)
(* The paho client library and the HTTP library are the environment: the   *)
(* model calls a publish a call of client.publish, and draws the outcome   *)
(* of every HTTP request and every broker event nondeterministically.      *)
(***************************************************************************)
EXTENDS Integers, Sequences, FiniteSets, TLC

VARIABLES
    sub_devices,      \* config["sub_devices"]
    client,           \* self.client: id of the current client object, 0 = None
    connected,        \* self.connected
    reconnect_delay,  \* self.reconnect_delay
    nclients,         \* number of mqtt.Client objects created so far
    link,             \* per client: transport state as seen by the library
    loops,            \* clients whose network loop thread runs (loop_start)
    subs,             \* per client: topics subscribed in its broker session
    pc,               \* per thread: 0 = caller thread, c = loop thread of client c
    joinTarget,       \* client whose loop thread disconnect() is joining
    waits,            \* time.sleep durations since the last successful connect
    everConnected,    \* a connect has been acknowledged with return code 0
    lastConnect,      \* how the connect() call that returned last ended
    msg,              \* last inbound message handled by _on_message
    replies,          \* client.publish calls on a reply topic made for msg
    haCalls,          \* HTTP requests made for msg, with their outcome
    reports,          \* client.publish calls on a property/post topic for msg
    outbox,           \* all client.publish calls made for msg, in call order
    ha_states,        \* the entity list the source system serves at /api/states
    entities,         \* HADiscovery.entities
    matched_devices,  \* the dict match_entities_to_devices builds and returns
    rpos,             \* index in entities of the entity the matching loop is at
    rpc,              \* position of discover()
    results,          \* the maps match_entities_to_devices returned so far
    retry,            \* config: retry_attempts and retry_delay
    load_log,         \* requests.get and time.sleep calls of the last load, in order
    cdevice,          \* collect_device_data: the device argument
    matched_entities, \* collect_device_data: the matched_entities argument, as items
    collected_data,   \* collect_device_data: the dict it builds and returns
    reads,            \* the answers of the source system in this call, in order
    cpos,             \* index of the item the loop of collect_device_data is at
    cpc,              \* position of collect_device_data
    ha_entities,      \* HATo163Gateway.ha_entities, as items in insertion order
    gpc,              \* position of HATo163Gateway.run
    gpos,             \* index of the item the loop of push_to_163_platform is at
    pushlog,          \* this cycle's iterations of that loop and what each did
    cycle             \* number of the cycle the loop of run is in

sessionVars == <<client, connected, reconnect_delay, nclients, link, loops,
                 subs, pc, joinTarget, waits,
                 everConnected, lastConnect>>
bridgeVars == <<msg, replies, haCalls, reports, outbox>>
resolverVars == <<ha_states, entities, matched_devices, rpos, rpc, results,
                  retry, load_log>>
collectorVars == <<cdevice, matched_entities, collected_data, reads, cpos, cpc>>
gatewayVars == <<ha_entities, gpc, gpos, pushlog, cycle>>

----------------------------------------------------------------------------
(* Bounds *)

MaxClients == 7

(* Program constants *)

InitialDelay == 1
DelayLimit == 60

----------------------------------------------------------------------------
(* String helpers, as the Python str methods compute them *)

StartsWith(s, p) == Len(p) <= Len(s) /\ SubSeq(s, 1, Len(p)) = p

Contains(s, p) ==
    \E i \in 1..(Len(s) - Len(p) + 1) : SubSeq(s, i, i + Len(p) - 1) = p

RECURSIVE IndexOf(_, _, _)
IndexOf(s, p, i) ==
    IF i + Len(p) - 1 > Len(s) THEN 0
    ELSE IF SubSeq(s, i, i + Len(p) - 1) = p THEN i
    ELSE IndexOf(s, p, i + 1)

\* s.split('.')[0]
DomainOf(s) ==
    LET i == IndexOf(s, ".", 1)
    IN  IF i = 0 THEN s ELSE SubSeq(s, 1, i - 1)

----------------------------------------------------------------------------
(* Configuration: the device catalogs the session is checked with *)

SwitchDev ==
    [id |-> "sw1", type |-> "switch", ha_entity_prefix |-> "switch.sw1",
     supported_properties |-> {"state", "power"},
     product_key |-> "pkA", device_name |-> "sw1", enabled |-> TRUE]

SensorDev ==
    [id |-> "sen1", type |-> "sensor", ha_entity_prefix |-> "sensor.hz2_01_",
     supported_properties |-> {"temp", "hum", "batt"},
     product_key |-> "pkB", device_name |-> "sen1", enabled |-> TRUE]

DisabledDev ==
    [id |-> "sk1", type |-> "socket", ha_entity_prefix |-> "switch.sk1",
     supported_properties |-> {"state", "current"},
     product_key |-> "pkA", device_name |-> "sk1", enabled |-> FALSE]

SessionCatalogs ==
    { <<SwitchDev, SensorDev, DisabledDev>>, <<SensorDev, SwitchDev>> }

----------------------------------------------------------------------------
(* Topics: a topic is the sequence of its '/'-separated parts *)

SetTopic(device) ==
    <<"sys", device.product_key, device.device_name,
      "thing", "service", "property", "set">>

CommonTopic(device) ==
    <<"sys", device.product_key, device.device_name,
      "service", "CommonService">>

ReplyTopicOfSet(product_key, device_name) ==
    <<"sys", product_key, device_name,
      "thing", "service", "property", "set_reply">>

\* reply_topic of _send_control_reply
ReplyTopic(product_key, device_name) ==
    <<"sys", product_key, device_name, "service", "CommonService_reply">>

PostTopic(device) ==
    <<"sys", device.product_key, device.device_name,
      "event", "property", "post">>

SubscribedTopicsSetOnly(devices) ==
    { SetTopic(devices[i]) : i \in {j \in DOMAIN devices : devices[j].enabled} }

\* the client.subscribe calls of _on_connect
SubscribedTopics(devices) ==
    UNION { {SetTopic(devices[i]), CommonTopic(devices[i])} :
            i \in {j \in DOMAIN devices : devices[j].enabled} }

----------------------------------------------------------------------------
(* Session state machine *)

Clients == 1..MaxClients
Threads == 0..MaxClients
CallerThread == 0

ConnackCodes == {0, 5}
DisconnectCodes == {0, 1}

\* _schedule_reconnect, lines 136-137
NextDelayWrap(d) == IF d < DelayLimit THEN d * 2 ELSE InitialDelay
NextDelay(d) == IF d < DelayLimit THEN d * 2 ELSE d

Returned(t) == IF t = CallerThread THEN "ready" ELSE "idle"

SessionInit ==
    /\ client = 0
    /\ connected = FALSE
    /\ reconnect_delay = InitialDelay
    /\ nclients = 0
    /\ link = [c \in Clients |-> "none"]
    /\ loops = {}
    /\ subs = [c \in Clients |-> {}]
    /\ pc = [t \in Threads |-> IF t = CallerThread THEN "start" ELSE "idle"]
    /\ joinTarget = 0
    /\ waits = <<>>
    /\ everConnected = FALSE
    /\ lastConnect = "none"

\* _schedule_reconnect on the loop thread of client c, up to time.sleep
ScheduleReconnect(c) ==
    /\ reconnect_delay' = NextDelay(reconnect_delay)
    /\ waits' = Append(waits, reconnect_delay')
    /\ pc' = [pc EXCEPT ![c] = "sleep"]

\* connect(): _init_mqtt_client, client.connect, loop_start; thread t is the
\* caller at start-up or a loop thread whose time.sleep has ended
Connect(t) ==
    /\ pc[t] = IF t = CallerThread THEN "start" ELSE "sleep"
    /\ nclients < MaxClients
    /\ LET n == nclients + 1 IN
       /\ client' = n
       /\ nclients' = n
       /\ \E raises \in BOOLEAN :
            IF raises
            THEN /\ link' = [link EXCEPT ![n] = "down"]
                 /\ loops' = loops
                 /\ pc' = [pc EXCEPT ![t] = Returned(t)]
                 /\ lastConnect' = "exception"
            ELSE /\ link' = [link EXCEPT ![n] = "connecting"]
                 /\ loops' = loops \cup {n}
                 /\ pc' = [pc EXCEPT ![t] = "wait"]
                 /\ lastConnect' = lastConnect
    /\ UNCHANGED <<sub_devices, connected, reconnect_delay, subs, joinTarget,
                   waits, everConnected, bridgeVars, resolverVars, collectorVars, gatewayVars>>

\* connect(), lines 95-99: the wait loop ends on self.connected or after 10 s
ConnectReturn(t) ==
    /\ pc[t] = "wait"
    /\ pc' = [pc EXCEPT ![t] = Returned(t)]
    /\ lastConnect' = IF connected THEN "ok" ELSE "timeout"
    /\ UNCHANGED <<sub_devices, client, connected, reconnect_delay, nclients,
                   link, loops, subs, joinTarget, waits, everConnected,
                   bridgeVars, resolverVars, collectorVars, gatewayVars>>

\* _on_connect on the loop thread of client c
OnConnect(c) ==
    /\ c \in loops
    /\ pc[c] = "idle"
    /\ link[c] = "connecting"
    /\ \E rc \in ConnackCodes :
         IF rc = 0
         THEN /\ connected' = TRUE
              /\ reconnect_delay' = InitialDelay
              /\ subs' = [subs EXCEPT ![c] = SubscribedTopics(sub_devices)]
              /\ link' = [link EXCEPT ![c] = "up"]
              /\ waits' = <<>>
              /\ everConnected' = TRUE
              /\ pc' = pc
         ELSE /\ connected' = FALSE
              /\ subs' = subs
              /\ everConnected' = everConnected
              /\ link' = [link EXCEPT ![c] = "down"]
              /\ ScheduleReconnect(c)
    /\ UNCHANGED <<sub_devices, client, nclients, loops, joinTarget,
                   lastConnect, bridgeVars, resolverVars, collectorVars, gatewayVars>>

\* _on_disconnect on the loop thread of client c
OnDisconnect(c) ==
    /\ c \in loops
    /\ pc[c] = "idle"
    /\ \E rc \in DisconnectCodes :
         /\ IF rc = 0 THEN link[c] = "closing"
                      ELSE link[c] \in {"connecting", "up"}
         /\ connected' = FALSE
         /\ link' = [link EXCEPT ![c] = "down"]
         /\ subs' = [subs EXCEPT ![c] = {}]
         /\ IF rc # 0
            THEN ScheduleReconnect(c)
            ELSE UNCHANGED <<reconnect_delay, waits, pc>>
    /\ UNCHANGED <<sub_devices, client, nclients, loops, joinTarget,
                   everConnected, lastConnect, bridgeVars, resolverVars, collectorVars, gatewayVars>>

\* disconnect(), line 351-352: self.client.loop_stop() joins the loop thread
DisconnectBegin ==
    /\ pc[CallerThread] = "ready"
    /\ client # 0
    /\ joinTarget' = client
    /\ pc' = [pc EXCEPT ![CallerThread] = "join"]
    /\ UNCHANGED <<sub_devices, client, connected, reconnect_delay, nclients,
                   link, loops, subs, waits, everConnected, lastConnect,
                   bridgeVars, resolverVars, collectorVars, gatewayVars>>

\* disconnect(), lines 352-354: the join ends when the loop thread is outside
\* a callback; then self.client.disconnect() and self.connected = False
DisconnectEnd ==
    /\ pc[CallerThread] = "join"
    /\ pc[joinTarget] = "idle"
    /\ loops' = loops \ {joinTarget}
    /\ link' = [link EXCEPT ![client] =
                   IF link[client] \in {"connecting", "up"}
                   THEN (IF client \in loops' THEN "closing" ELSE "down")
                   ELSE link[client]]
    /\ subs' = [subs EXCEPT ![client] = {}]
    /\ connected' = FALSE
    /\ pc' = [pc EXCEPT ![CallerThread] = "stopped"]
    /\ UNCHANGED <<sub_devices, client, reconnect_delay, nclients, joinTarget,
                   waits, everConnected, lastConnect, bridgeVars, resolverVars, collectorVars, gatewayVars>>

----------------------------------------------------------------------------
(* Command bridge: _on_message and the handlers it calls *)

NoId == "absent"
NowId == "now"         \* int(time.time() * 1000)
CommandIds == {"id7"}
NoState == -1
StateValues == {0, 1}

\* msg.payload: not JSON, a JSON array, or a JSON object.  Of an object the
\* model keeps the "id" key, the kind of the "params" key, and the "state"
\* key of payload.get("params", payload).
Payloads ==
    { [form |-> "malformed", id |-> NoId, params |-> "absent", state |-> NoState],
      [form |-> "array", id |-> NoId, params |-> "absent", state |-> NoState] }
    \cup [form : {"object"}, id : CommandIds \cup {NoId},
          params : {"absent", "object"}, state : StateValues \cup {NoState}]
    \cup [form : {"object"}, id : CommandIds \cup {NoId},
          params : {"number"}, state : {NoState}]

InboundTopics(devices) ==
    SubscribedTopics(devices)
    \cup { CommonTopic(DisabledDev),
           <<"sys", "pkA", "nodev", "service", "CommonService">>,
           <<"sys", "pkA">>,
           <<"ota", "pkA", "sw1", "upgrade">> }

\* outcome of an HTTP request: status 0 stands for a raised exception
HttpStatuses == {0, 200, 500}

\* state of the controlled entity in the source system after the action
EntityStates == {"on", "off"}
NotObserved == "none"

EntityLists ==
    { <<"sensor.sw1_power", "switch.sw1_on_p_2_1", "switch.sw1_on_p_3_1">>,
      <<"switch.sw1_toggle", "light.sw1_on", "switch.sk1_on">> }

NoEffects == [replies |-> <<>>, haCalls |-> <<>>, reports |-> <<>>]

ControlReplyAlwaysOk(product_key, device_name, command_id, success, result_data, error_msg) ==
    [topic |-> ReplyTopic(product_key, device_name),
     id |-> command_id,
     code |-> 200,
     message |-> IF success THEN "success" ELSE error_msg,
     data |-> result_data]

\* _send_control_reply: the message handed to client.publish
ControlReply(product_key, device_name, command_id, success, result_data, error_msg) ==
    [topic |-> ReplyTopic(product_key, device_name),
     id |-> command_id,
     code |-> IF success THEN 200 ELSE 500,
     message |-> IF success THEN "success" ELSE error_msg,
     data |-> result_data]

ReportStateInverted(device, state, isConnected) ==
    IF ~isConnected
    THEN << [topic |-> PostTopic(device), params |-> {<<"state", state>>}] >>
    ELSE << >>

\* _report_state and publish: nothing is published while not connected
ReportState(device, state, isConnected) ==
    IF isConnected
    THEN << [topic |-> PostTopic(device), params |-> {<<"state", state>>}] >>
    ELSE << >>

CandidateEntitiesAnyPrefix(listed, entity_prefix) ==
    SelectSeq(listed,
              LAMBDA e : /\ Contains(e, "on")
                         /\ DomainOf(e) = "switch")

\* candidate_entities, lines 226-231
CandidateEntities(listed, entity_prefix) ==
    SelectSeq(listed,
              LAMBDA e : /\ StartsWith(e, entity_prefix)
                         /\ Contains(e, "on")
                         /\ DomainOf(e) = "switch")

\* _control_switch_or_socket
ControlSwitchOrSocket(device, target_state, product_key, device_name, command_id, lookupStatus, listed, actionStatus, isConnected) ==
    LET ha_state == IF target_state = 1 THEN "on" ELSE "off"
        fail(m) == ControlReply(product_key, device_name, command_id,
                                FALSE, {}, m)
        lookup == [req |-> "get_states", entity |-> "", status |-> lookupStatus]
        candidates == CandidateEntities(listed, device.ha_entity_prefix)
        matched_entity == candidates[1]
        action == [req |-> "turn_" \o ha_state, entity |-> matched_entity,
                   status |-> actionStatus]
        actual_state == IF ha_state = "on" THEN 1 ELSE 0
    IN  IF lookupStatus = 0
        THEN [replies |-> <<fail("lookup_exception")>>,
              haCalls |-> <<lookup>>, reports |-> <<>>]
        ELSE IF lookupStatus # 200
        THEN [replies |-> <<fail("lookup_failed")>>,
              haCalls |-> <<lookup>>, reports |-> <<>>]
        ELSE IF candidates = <<>>
        THEN [replies |-> <<fail("no_control_entity")>>,
              haCalls |-> <<lookup>>, reports |-> <<>>]
        ELSE IF actionStatus = 0
        THEN [replies |-> <<fail("api_exception")>>,
              haCalls |-> <<lookup, action>>, reports |-> <<>>]
        ELSE IF actionStatus = 200
        THEN [replies |-> <<ControlReply(product_key, device_name, command_id,
                                         TRUE, {<<"state", actual_state>>}, "")>>,
              haCalls |-> <<lookup, action>>,
              reports |-> ReportState(device, actual_state, isConnected)]
        ELSE [replies |-> <<fail("control_failed")>>,
              haCalls |-> <<lookup, action>>, reports |-> <<>>]

MatchingDevicesByKey(devices, product_key, device_name) ==
    SelectSeq(devices,
              LAMBDA d : d.product_key = product_key /\ d.enabled)

\* the target_device loop of _handle_control_command, lines 163-169
MatchingDevices(devices, product_key, device_name) ==
    SelectSeq(devices,
              LAMBDA d : /\ d.product_key = product_key
                         /\ d.device_name = device_name
                         /\ d.enabled)

\* _handle_control_command; '"state" in target_params' raises TypeError when
\* params is a number, and the exception leaves through _on_message's except
HandleControlCommand(devices, product_key, device_name, payload, command_id, lookupStatus, listed, actionStatus, isConnected) ==
    LET found == MatchingDevices(devices, product_key, device_name)
        target_device == found[1]
        fail(m) == ControlReply(product_key, device_name, command_id,
                                FALSE, {}, m)
    IN  IF found = <<>>
        THEN [replies |-> <<fail("device_not_found")>>,
              haCalls |-> <<>>, reports |-> <<>>]
        ELSE IF target_device.type \in {"switch", "socket"}
        THEN IF payload.params = "number"
             THEN NoEffects
             ELSE IF payload.state # NoState
             THEN ControlSwitchOrSocket(target_device, payload.state,
                                        product_key, device_name, command_id,
                                        lookupStatus, listed, actionStatus,
                                        isConnected)
             ELSE [replies |-> <<fail("unsupported")>>,
                   haCalls |-> <<>>, reports |-> <<>>]
        ELSE [replies |-> <<fail("unsupported")>>,
              haCalls |-> <<>>, reports |-> <<>>]

\* _on_message: json.loads raises on a malformed payload and payload.get
\* raises on a JSON array; both end in the except clause of line 157
OnMessageEffects(devices, topic, payload, lookupStatus, listed, actionStatus, isConnected) ==
    IF payload.form = "malformed"
    THEN NoEffects
    ELSE IF Len(topic) >= 3 /\ topic[1] = "sys"
    THEN IF payload.form = "array"
         THEN NoEffects
         ELSE HandleControlCommand(
                  devices, topic[2], topic[3], payload,
                  IF payload.id = NoId THEN NowId ELSE payload.id,
                  lookupStatus, listed, actionStatus, isConnected)
    ELSE NoEffects

NoMsg ==
    [topic |-> <<>>, payload |-> "none", client |-> 0,
     lookupStatus |-> 0, entities |-> <<>>, actionStatus |-> 0,
     observed |-> NotObserved]

BridgeInit ==
    /\ msg = NoMsg
    /\ replies = <<>>
    /\ haCalls = <<>>
    /\ reports = <<>>
    /\ outbox = <<>>

PublishedReportFirst(eff) == eff.reports \o eff.replies

\* lines 271-277: _send_control_reply is called before _report_state; every
\* other branch publishes a reply only
Published(eff) == eff.replies \o eff.reports

\* the HTTP requests a message leads to, were each of them to raise
RequestsMade(devices, topic, payload, lookupStatus, listed) ==
    Len(OnMessageEffects(devices, topic, payload, lookupStatus, listed,
                         0, FALSE).haCalls)

\* delivery of an inbound message on the loop thread of client c; the
\* outcomes of the HTTP requests are drawn only for the requests made
OnMessage(c) ==
    /\ c \in loops
    /\ pc[c] = "idle"
    /\ link[c] = "up"
    /\ \E topic \in InboundTopics(sub_devices), payload \in Payloads :
       \E lookupStatus \in
              IF RequestsMade(sub_devices, topic, payload, 0, <<>>) = 0
              THEN {200} ELSE HttpStatuses :
       \E listed \in
              IF RequestsMade(sub_devices, topic, payload, 0, <<>>) = 0
                 \/ lookupStatus # 200
              THEN {<<>>} ELSE EntityLists :
       \E actionStatus \in
              IF RequestsMade(sub_devices, topic, payload, lookupStatus,
                              listed) < 2
              THEN {200} ELSE HttpStatuses :
       \E observed \in
              IF RequestsMade(sub_devices, topic, payload, lookupStatus,
                              listed) < 2
                 \/ actionStatus # 200
              THEN {NotObserved} ELSE EntityStates :
         LET eff == OnMessageEffects(sub_devices, topic, payload, lookupStatus,
                                     listed, actionStatus, connected)
         IN  /\ msg' = [topic |-> topic, payload |-> payload, client |-> c,
                         lookupStatus |-> lookupStatus, entities |-> listed,
                         actionStatus |-> actionStatus,
                         observed |-> observed]
             /\ replies' = eff.replies
             /\ outbox' = Published(eff)
             /\ haCalls' = eff.haCalls
             /\ reports' = eff.reports
    /\ UNCHANGED <<sub_devices, sessionVars, resolverVars, collectorVars, gatewayVars>>

----------------------------------------------------------------------------
(* Entity resolver: more string helpers *)

Digits == {"0", "1", "2", "3", "4", "5", "6", "7", "8", "9"}

IsDigits(s) ==
    Len(s) >= 1 /\ \A i \in 1..Len(s) : SubSeq(s, i, i) \in Digits

UpperToLower ==
    [c \in {"H", "P", "T", "Z"} |->
        CASE c = "H" -> "h" [] c = "P" -> "p" [] c = "T" -> "t" [] c = "Z" -> "z"]

\* str.lower over the characters the inputs use
RECURSIVE Lower(_)
Lower(s) ==
    IF s = "" THEN ""
    ELSE LET c == SubSeq(s, 1, 1)
         IN  (IF c \in DOMAIN UpperToLower THEN UpperToLower[c] ELSE c)
                 \o Lower(SubSeq(s, 2, Len(s)))

\* s.split('.', 1)[1], for s with a dot
AfterFirstDot(s) == SubSeq(s, IndexOf(s, ".", 1) + 1, Len(s))

\* s.replace(p, "")
RECURSIVE RemoveAll(_, _)
RemoveAll(s, p) ==
    IF p = "" \/ s = "" THEN s
    ELSE IF StartsWith(s, p) THEN RemoveAll(SubSeq(s, Len(p) + 1, Len(s)), p)
    ELSE SubSeq(s, 1, 1) \o RemoveAll(SubSeq(s, 2, Len(s)), p)

\* s.strip('_')
RECURSIVE StripUnderscores(_)
StripUnderscores(s) ==
    IF s = "" THEN s
    ELSE IF SubSeq(s, 1, 1) = "_" THEN StripUnderscores(SubSeq(s, 2, Len(s)))
    ELSE IF SubSeq(s, Len(s), Len(s)) = "_"
    THEN StripUnderscores(SubSeq(s, 1, Len(s) - 1))
    ELSE s

\* s.split('_')
RECURSIVE SplitUnderscore(_)
SplitUnderscore(s) ==
    LET i == IndexOf(s, "_", 1)
    IN  IF i = 0 THEN <<s>>
        ELSE <<SubSeq(s, 1, i - 1)>> \o SplitUnderscore(SubSeq(s, i + 1, Len(s)))

\* whether t matches _p\d+(_\d+)? as a whole
IsIndexSuffix(t) ==
    /\ StartsWith(t, "_p")
    /\ LET r == SubSeq(t, 3, Len(t))
       IN  \/ IsDigits(r)
           \/ \E k \in 2..(Len(r) - 1) :
                 /\ IsDigits(SubSeq(r, 1, k - 1))
                 /\ SubSeq(r, k, k) = "_"
                 /\ IsDigits(SubSeq(r, k + 1, Len(r)))

\* re.sub(r'_p\d+(_\d+)?$', '', s)
StripIndexSuffix(s) ==
    LET starts == {i \in 1..Len(s) : IsIndexSuffix(SubSeq(s, i, Len(s)))}
    IN  IF starts = {} THEN s
        ELSE SubSeq(s, 1, (CHOOSE i \in starts : \A j \in starts : i <= j) - 1)

----------------------------------------------------------------------------
(* Entity resolver: PROPERTY_MAPPING and the two matchers *)

\* PROPERTY_MAPPING in its insertion order
PROPERTY_MAPPING ==
    << <<"temperature", "temp">>, <<"temp", "temp">>, <<"temp_c", "temp">>,
       <<"temp_f", "temp">>, <<"humidity", "hum">>, <<"hum", "hum">>,
       <<"humidity_percent", "hum">>, <<"battery", "batt">>,
       <<"batt", "batt">>, <<"battery_level", "batt">>,
       <<"battery_percent", "batt">>, <<"state", "state">>,
       <<"on", "state">>, <<"off", "state">>, <<"current", "current">>,
       <<"electric_current", "current">>, <<"curr", "current">>,
       <<"electric_curr", "current">>, <<"voltage", "voltage">>,
       <<"vol", "voltage">>, <<"electric_vol", "voltage">>,
       <<"power", "power">>, <<"electric_power", "power">>,
       <<"active_power", "power">>, <<"energy", "energy">>,
       <<"power_consumption", "energy">>, <<"kwh", "energy">>,
       <<"consumption", "energy">> >>

None == ""

\* PROPERTY_MAPPING[key] if key in PROPERTY_MAPPING, else None
MappingGet(key) ==
    LET hits == {i \in DOMAIN PROPERTY_MAPPING : PROPERTY_MAPPING[i][1] = key}
    IN  IF hits = {} THEN None
        ELSE PROPERTY_MAPPING[CHOOSE i \in hits : TRUE][2]

\* the loop "for part in parts: if part in PROPERTY_MAPPING: ... break"
RECURSIVE FirstMappedPart(_)
FirstMappedPart(parts) ==
    IF parts = <<>> THEN None
    ELSE IF MappingGet(Head(parts)) # None THEN MappingGet(Head(parts))
    ELSE FirstMappedPart(Tail(parts))

\* the loop "for key in PROPERTY_MAPPING: if key in friendly_name: ... break"
FriendlyNameMatch(friendly_name) ==
    LET hits == {i \in DOMAIN PROPERTY_MAPPING :
                    Contains(friendly_name, PROPERTY_MAPPING[i][1])}
    IN  IF hits = {} THEN None
        ELSE PROPERTY_MAPPING[CHOOSE i \in hits : \A j \in hits : i <= j][2]

electric_device_types == {"switch", "socket", "breaker"}
environment_types == {"sensor"}

\* HADiscovery.__init__, line 50
EnabledDevices(devices) == SelectSeq(devices, LAMBDA d : d.enabled)

\* match_entities_to_devices, lines 102-107
CleanedPrefix(device) ==
    IF device.type \in environment_types
       /\ StartsWith(device.ha_entity_prefix, "sensor.")
    THEN SubSeq(device.ha_entity_prefix, Len("sensor.") + 1,
                Len(device.ha_entity_prefix))
    ELSE device.ha_entity_prefix

EmptyMatchRewritePrefix(devices) ==
    [i \in DOMAIN EnabledDevices(devices) |->
        [config |-> [EnabledDevices(devices)[i] EXCEPT !.ha_entity_prefix =
                        CleanedPrefix(EnabledDevices(devices)[i])],
         entities |-> [p \in {} |-> ""],
         cleaned_prefix |-> CleanedPrefix(EnabledDevices(devices)[i])]]

\* match_entities_to_devices, lines 96-113
EmptyMatch(devices) ==
    [i \in DOMAIN EnabledDevices(devices) |->
        [config |-> EnabledDevices(devices)[i],
         entities |-> [p \in {} |-> ""],
         cleaned_prefix |-> CleanedPrefix(EnabledDevices(devices)[i])]]

\* _match_environment_entity, lines 174-204: the property of an entity whose
\* core contains the prefix; None when no tier matches or the type part is empty
EnvironmentProperty(entity_core, device_class, friendly_name, prefix) ==
    LET entity_type == StripUnderscores(RemoveAll(entity_core, prefix))
        entity_type_parts == SplitUnderscore(entity_type)
    IN  IF entity_type = "" THEN None
        ELSE IF MappingGet(device_class) # None THEN MappingGet(device_class)
        ELSE IF FirstMappedPart(entity_type_parts) # None
        THEN FirstMappedPart(entity_type_parts)
        ELSE IF MappingGet(entity_type) # None THEN MappingGet(entity_type)
        ELSE FriendlyNameMatch(friendly_name)

\* _match_electric_entity, lines 228-255
ElectricProperty(entity_core, friendly_name, prefix) ==
    LET cleaned_suffix ==
            StripUnderscores(RemoveAll(StripIndexSuffix(entity_core), prefix))
    IN  IF MappingGet(cleaned_suffix) # None THEN MappingGet(cleaned_suffix)
        ELSE IF FirstMappedPart(SplitUnderscore(cleaned_suffix)) # None
        THEN FirstMappedPart(SplitUnderscore(cleaned_suffix))
        ELSE FriendlyNameMatch(friendly_name)

BindOverwrite(device_data, property_name, entity_id) ==
    [device_data EXCEPT !.entities =
        [p \in DOMAIN device_data.entities \cup {property_name} |->
            IF p = property_name THEN entity_id ELSE device_data.entities[p]]]

\* lines 208-209 and 259-260: bind the property unless it is bound already
Bind(device_data, property_name, entity_id) ==
    IF property_name \in DOMAIN device_data.entities
    THEN device_data
    ELSE [device_data EXCEPT !.entities =
            [p \in DOMAIN device_data.entities \cup {property_name} |->
                IF p = property_name THEN entity_id
                ELSE device_data.entities[p]]]

AcceptedAny(device, property_name) == property_name # None

\* lines 207 and 258: the property is one the device supports
Accepted(device, property_name) ==
    property_name # None /\ property_name \in device.supported_properties

\* _match_environment_entity: the loop over matched_devices from index i on
RECURSIVE MatchEnvironmentEntity(_, _, _, _, _, _)
MatchEnvironmentEntity(i, entity_id, entity_core, device_class, friendly_name, matched) ==
    IF i > Len(matched) THEN matched
    ELSE LET device == matched[i].config
             prefix == matched[i].cleaned_prefix
             property_name ==
                 EnvironmentProperty(entity_core, device_class, friendly_name,
                                     prefix)
         IN  IF device.type \notin environment_types
                \/ ~Contains(entity_core, prefix)
             THEN MatchEnvironmentEntity(i + 1, entity_id, entity_core,
                                         device_class, friendly_name, matched)
             ELSE IF Accepted(device, property_name)
             THEN [matched EXCEPT ![i] = Bind(matched[i], property_name, entity_id)]
             ELSE MatchEnvironmentEntity(i + 1, entity_id, entity_core,
                                         device_class, friendly_name, matched)

\* _match_electric_entity: the loop over matched_devices from index i on
RECURSIVE MatchElectricEntity(_, _, _, _, _, _)
MatchElectricEntity(i, entity_id, entity_type, entity_core, friendly_name, matched) ==
    IF i > Len(matched) THEN matched
    ELSE LET device == matched[i].config
             prefix == matched[i].cleaned_prefix
             property_name == ElectricProperty(entity_core, friendly_name, prefix)
         IN  IF device.type \notin electric_device_types
                \/ ~Contains(entity_core, prefix)
                \/ entity_type \notin {"switch", "sensor"}
             THEN MatchElectricEntity(i + 1, entity_id, entity_type,
                                      entity_core, friendly_name, matched)
             ELSE IF Accepted(device, property_name)
             THEN [matched EXCEPT ![i] = Bind(matched[i], property_name, entity_id)]
             ELSE MatchElectricEntity(i + 1, entity_id, entity_type,
                                      entity_core, friendly_name, matched)

\* match_entities_to_devices, lines 117-137: one pass of the entity loop
MatchEntity(entity, matched) ==
    LET entity_id == entity.entity_id
        entity_type == DomainOf(entity_id)
        entity_core == AfterFirstDot(entity_id)
        friendly_name == Lower(entity.friendly_name)
        device_class == Lower(entity.device_class)
        afterEnvironment ==
            IF entity_type = "sensor"
            THEN MatchEnvironmentEntity(1, entity_id, entity_core, device_class,
                                        friendly_name, matched)
            ELSE matched
    IN  IF ~Contains(entity_id, ".") THEN matched
        ELSE IF entity_type \in {"sensor", "switch"}
        THEN MatchElectricEntity(1, entity_id, entity_type, entity_core,
                                 friendly_name, afterEnvironment)
        ELSE afterEnvironment

----------------------------------------------------------------------------
(* Entity resolver: inputs and state machine *)

MaxEntities == 3
MaxRuns == 2

EnvSensor ==
    [id |-> "env1", type |-> "sensor", ha_entity_prefix |-> "sensor.hz2_01_",
     supported_properties |-> {"temp", "hum", "batt"},
     product_key |-> "pkB", device_name |-> "env1", enabled |-> TRUE]

Plug ==
    [id |-> "plug", type |-> "switch", ha_entity_prefix |-> "plug",
     supported_properties |-> {"state"},
     product_key |-> "pkA", device_name |-> "plug", enabled |-> TRUE]

Plug1 ==
    [id |-> "plug1", type |-> "socket", ha_entity_prefix |-> "plug1",
     supported_properties |-> {"state", "power", "energy"},
     product_key |-> "pkA", device_name |-> "plug1", enabled |-> TRUE]

PlugOff ==
    [id |-> "plug0", type |-> "breaker", ha_entity_prefix |-> "plug1",
     supported_properties |-> {"state", "voltage"},
     product_key |-> "pkA", device_name |-> "plug0", enabled |-> FALSE]

ResolverCatalogs ==
    { <<EnvSensor, PlugOff, Plug1>>, <<Plug, Plug1, EnvSensor>> }

EntityPool ==
    { [entity_id |-> "sensor.hz2_01_temperature",
       device_class |-> "temperature", friendly_name |-> "HZ2 Temperature"],
      [entity_id |-> "sensor.hz2_01_temp_p3",
       device_class |-> "", friendly_name |-> ""],
      [entity_id |-> "sensor.hz2_01_pressure",
       device_class |-> "pressure", friendly_name |-> "HZ2 Pressure"],
      [entity_id |-> "switch.plug1_on_p_2_1",
       device_class |-> "", friendly_name |-> "Plug"],
      [entity_id |-> "switch.plug1_off",
       device_class |-> "", friendly_name |-> ""],
      [entity_id |-> "sensor.plug1_power_consumption_p3",
       device_class |-> "power_consumption", friendly_name |-> "Plug energy"],
      [entity_id |-> "sensor.plug1_voltage_p1_2",
       device_class |-> "voltage", friendly_name |-> ""],
      [entity_id |-> "sensor.plug1_power_consumption_p_3_2",
       device_class |-> "power_consumption", friendly_name |-> "Plug power"],
      [entity_id |-> "noseparator",
       device_class |-> "", friendly_name |-> "temp"] }

\* load_ha_entities: what an attempt can end with; 0 stands for an exception
\* of requests.get, 500 makes raise_for_status raise
LoadStatuses == {0, 200, 204, 500}

MaxAttempts == 3

\* config: retry_attempts and retry_delay
RetryConfigs == [retry_attempts : 0..MaxAttempts, retry_delay : {3, -1}]
OneAttempt == [retry_attempts |-> 1, retry_delay |-> 3]

\* resp = None, line 58
NoResp == -1

GetCall(status) == [op |-> "get", arg |-> status]
SleepCall(delay) == [op |-> "sleep", arg |-> delay]

\* requests.get returned and raise_for_status did not raise, lines 64-70
Succeeded(status) == status # 0 /\ status < 400

RECURSIVE LoadAttemptsSleepAlways(_, _, _, _, _)
LoadAttemptsSleepAlways(attempt, config, outcomes, resp, log) ==
    IF attempt >= config.retry_attempts
    THEN [raised |-> FALSE, resp |-> resp, log |-> log]
    ELSE LET status == outcomes[attempt + 1]
             got == Append(log, GetCall(status))
             kept == IF status = 0 THEN resp ELSE status
         IN  IF Succeeded(status)
             THEN [raised |-> FALSE, resp |-> status, log |-> got]
             ELSE IF config.retry_delay < 0
             THEN [raised |-> TRUE, resp |-> kept, log |-> got]
             ELSE LoadAttemptsSleepAlways(attempt + 1, config, outcomes, kept,
                      Append(got, SleepCall(config.retry_delay)))

\* load_ha_entities, lines 62-74: the retry loop from attempt on; the result
\* tells whether an exception left the loop, the response resp is bound to,
\* and the calls made. time.sleep of a negative delay raises ValueError
\* without waiting and is not logged as a sleep.
RECURSIVE LoadAttempts(_, _, _, _, _)
LoadAttempts(attempt, config, outcomes, resp, log) ==
    IF attempt >= config.retry_attempts
    THEN [raised |-> FALSE, resp |-> resp, log |-> log]
    ELSE LET status == outcomes[attempt + 1]
             got == Append(log, GetCall(status))
             kept == IF status = 0 THEN resp ELSE status
         IN  IF Succeeded(status)
             THEN [raised |-> FALSE, resp |-> status, log |-> got]
             ELSE IF attempt < config.retry_attempts - 1
             THEN IF config.retry_delay < 0
                  THEN [raised |-> TRUE, resp |-> kept, log |-> got]
                  ELSE LoadAttempts(attempt + 1, config, outcomes, kept,
                           Append(got, SleepCall(config.retry_delay)))
             ELSE LoadAttempts(attempt + 1, config, outcomes, kept, got)

\* load_ha_entities, lines 55-93: True only for a response with status 200
\* whose body parses; every exception ends in 'return False'
LoadHaEntities(config, outcomes, json_ok) ==
    LET r == LoadAttempts(0, config, outcomes, NoResp, <<>>)
    IN  [log |-> r.log,
         loaded |-> /\ ~r.raised
                    /\ r.resp # NoResp /\ Succeeded(r.resp)
                    /\ r.resp = 200
                    /\ json_ok]

EntityInputs ==
    UNION { [1..n -> EntityPool] : n \in 0..MaxEntities }

ResolverInit ==
    /\ ha_states = <<>>
    /\ entities = <<>>
    /\ matched_devices = <<>>
    /\ rpos = 0
    /\ rpc = "idle"
    /\ results = <<>>
    /\ retry = OneAttempt
    /\ load_log = <<>>

DiscoverResume ==
    /\ rpc \in {"idle", "done", "failed"}
    /\ Len(results) < MaxRuns
    /\ \E outcomes \in [1..retry.retry_attempts -> LoadStatuses], json_ok \in BOOLEAN :
         /\ load_log' = LoadHaEntities(retry, outcomes, json_ok).log
         /\ IF LoadHaEntities(retry, outcomes, json_ok).loaded
            THEN /\ entities' = ha_states
                 /\ matched_devices' = EmptyMatch(sub_devices)
                 /\ rpos' = IF rpos = 0 THEN 1 ELSE rpos
                 /\ rpc' = "matching"
            ELSE /\ entities' = entities
                 /\ matched_devices' = <<>>
                 /\ rpos' = 0
                 /\ rpc' = "failed"
    /\ UNCHANGED <<sub_devices, sessionVars, bridgeVars, gatewayVars, collectorVars, ha_states, results,
                   retry>>

\* discover(): load_ha_entities stores the list the source system serves and
\* match_entities_to_devices starts from empty maps; a failed load ends
\* discover() with an empty result
Discover ==
    /\ rpc \in {"idle", "done", "failed"}
    /\ Len(results) < MaxRuns
    /\ \E outcomes \in [1..retry.retry_attempts -> LoadStatuses], json_ok \in BOOLEAN :
         /\ load_log' = LoadHaEntities(retry, outcomes, json_ok).log
         /\ IF LoadHaEntities(retry, outcomes, json_ok).loaded
            THEN /\ entities' = ha_states
                 /\ matched_devices' = EmptyMatch(sub_devices)
                 /\ rpos' = 1
                 /\ rpc' = "matching"
            ELSE /\ entities' = entities
                 /\ matched_devices' = <<>>
                 /\ rpos' = 0
                 /\ rpc' = "failed"
    /\ UNCHANGED <<sub_devices, sessionVars, bridgeVars, gatewayVars, collectorVars, ha_states, results,
                   retry>>

\* match_entities_to_devices, lines 117-137: the next entity of the list
ProcessEntity ==
    /\ rpc = "matching"
    /\ rpos <= Len(entities)
    /\ matched_devices' = MatchEntity(entities[rpos], matched_devices)
    /\ rpos' = rpos + 1
    /\ UNCHANGED <<sub_devices, sessionVars, bridgeVars, gatewayVars, collectorVars, ha_states, entities,
                   rpc, results, retry, load_log>>

\* match_entities_to_devices, line 160: the dict is returned
FinishMatch ==
    /\ rpc = "matching"
    /\ rpos > Len(entities)
    /\ rpc' = "done"
    /\ results' = Append(results, matched_devices)
    /\ UNCHANGED <<sub_devices, sessionVars, bridgeVars, gatewayVars, collectorVars, ha_states, entities,
                   matched_devices, rpos, retry, load_log>>

----------------------------------------------------------------------------
(* Telemetry collector: collect_device_data *)

MaxProps == 2

\* numbers are kept as integers counting ten-thousandths
Scale == 10000

DigitValue(c) ==
    CASE c = "0" -> 0 [] c = "1" -> 1 [] c = "2" -> 2 [] c = "3" -> 3
      [] c = "4" -> 4 [] c = "5" -> 5 [] c = "6" -> 6 [] c = "7" -> 7
      [] c = "8" -> 8 [] c = "9" -> 9

RECURSIVE DigitsValue(_)
DigitsValue(s) ==
    IF s = "" THEN 0
    ELSE 10 * DigitsValue(SubSeq(s, 1, Len(s) - 1))
         + DigitValue(SubSeq(s, Len(s), Len(s)))

RECURSIVE Pow10(_)
Pow10(n) == IF n = 0 THEN 1 ELSE 10 * Pow10(n - 1)

\* float(state) for the decimal notation [-]digits[.digits] with at most four
\* decimals; every other text of the input sets raises ValueError
ParseFloat(s) ==
    LET neg == StartsWith(s, "-")
        body == IF neg THEN SubSeq(s, 2, Len(s)) ELSE s
        dot == IndexOf(body, ".", 1)
        whole == IF dot = 0 THEN body ELSE SubSeq(body, 1, dot - 1)
        frac == IF dot = 0 THEN "" ELSE SubSeq(body, dot + 1, Len(body))
        wellFormed ==
            /\ whole = "" \/ IsDigits(whole)
            /\ frac = "" \/ IsDigits(frac)
            /\ whole # "" \/ frac # ""
            /\ Len(frac) <= 4
        magnitude ==
            DigitsValue(whole) * Scale + DigitsValue(frac) * Pow10(4 - Len(frac))
    IN  IF wellFormed
        THEN [ok |-> TRUE, e4 |-> IF neg THEN 0 - magnitude ELSE magnitude]
        ELSE [ok |-> FALSE, e4 |-> 0]

\* round(x, ndigits): to the nearest, and to the even neighbour when x is
\* half way and a binary float holds it exactly (1.25); the input sets lead
\* to no other tie
Round(x, ndigits) ==
    LET unit == Pow10(4 - ndigits)
        a == IF x < 0 THEN 0 - x ELSE x
        q == a \div unit
        r == a % unit
        up == 2 * r > unit \/ (2 * r = unit /\ q % 2 = 1)
        m == (IF up THEN q + 1 ELSE q) * unit
    IN  IF x < 0 THEN 0 - m ELSE m

\* lines 57-62: the number of decimals kept per property
RoundFor(prop, x) ==
    IF prop = "current" THEN Round(x, 2)
    ELSE IF prop \in {"active_power", "voltage", "frequency"} THEN Round(x, 1)
    ELSE IF prop = "energy" THEN Round(x, 3)
    ELSE x

\* a conversion factor is kept as a fraction: 0.1 is 1/10, 2.0 is 2/1
Factor(num, den) == [num |-> num, den |-> den]

NoFactors == [p \in {} |-> Factor(1, 1)]

\* conversion_factors.get(prop, 1.0)
FactorGet(conversion_factors, prop) ==
    IF prop \in DOMAIN conversion_factors THEN conversion_factors[prop]
    ELSE Factor(1, 1)

\* value * factor
Times(x, factor) == (x * factor.num) \div factor.den

\* lines 44-69: the value stored for a state text, or ok = FALSE when the
\* text is not a number (ValueError, the property is skipped)
Convert(prop, state, conversion_factors) ==
    IF state \in {"on", "off"}
    THEN [ok |-> TRUE,
          value |-> [type |-> "int", e4 |-> IF state = "on" THEN Scale ELSE 0]]
    ELSE LET f == ParseFloat(state)
         IN  IF f.ok
             THEN [ok |-> TRUE,
                   value |-> [type |-> "float",
                              e4 |-> RoundFor(prop,
                                  Times(f.e4,
                                        FactorGet(conversion_factors, prop)))]]
             ELSE [ok |-> FALSE, value |-> [type |-> "none", e4 |-> 0]]

\* the state texts the source system answers with
RawStates == {"on", "off", "trip", "1", "2.5", "12.346", "unavailable"}

\* status of GET /api/states/{entity_id}: 0 stands for a raised exception
ReadStatuses == {0, 200, 404}

FactorMaps ==
    { NoFactors,
      [p \in {"state", "current"} |->
          IF p = "state" THEN Factor(2, 1) ELSE Factor(1, 10)],
      [p \in {"active_power"} |-> Factor(1, 2)] }

CollectorDevices ==
    [id : {"sk2"}, type : {"socket"}, ha_entity_prefix : {"switch.sk2_"},
     supported_properties : {{"state", "current", "active_power"}},
     conversion_factors : FactorMaps,
     product_key : {"pkA"}, device_name : {"sk2"}, enabled : {TRUE}]
    \cup
    [id : {"sen2"}, type : {"sensor"}, ha_entity_prefix : {"sensor.sen2_"},
     supported_properties : {{"temp", "hum"}},
     conversion_factors : {NoFactors},
     product_key : {"pkB"}, device_name : {"sen2"}, enabled : {TRUE}]
    \cup
    [id : {"br1"}, type : {"breaker"}, ha_entity_prefix : {"switch.br1_"},
     supported_properties : {{"state", "voltage"}},
     conversion_factors : {NoFactors},
     product_key : {"pkA"}, device_name : {"br1"}, enabled : {TRUE}]

\* dicts of up to MaxProps supported properties, as items in insertion order
MatchedInputs(device) ==
    LET props == device.supported_properties
        seqs == UNION {[1..n -> props] : n \in 0..MaxProps}
    IN  { [k \in DOMAIN q |-> <<q[k], device.ha_entity_prefix \o q[k]>>] :
          q \in {x \in seqs : \A a, b \in DOMAIN x : a # b => x[a] # x[b]} }

CollectorInit ==
    /\ cdevice = CHOOSE d \in CollectorDevices :
                     d.id = "sk2" /\ d.conversion_factors = NoFactors
    /\ matched_entities = <<>>
    /\ collected_data = <<>>
    /\ reads = <<>>
    /\ cpos = 0
    /\ cpc = "idle"

\* lines 18-26: a call of collect_device_data starts with an empty dict
CollectStart ==
    /\ cpc \in {"idle", "done"}
    /\ collected_data' = <<>>
    /\ reads' = <<>>
    /\ cpos' = 1
    /\ cpc' = "collecting"
    /\ UNCHANGED <<sub_devices, sessionVars, bridgeVars, gatewayVars, resolverVars,
                   cdevice, matched_entities>>

CollectPropertyAbort ==
    /\ cpc = "collecting"
    /\ cpos <= Len(matched_entities)
    /\ \E status \in ReadStatuses :
       \E state \in IF status = 200 THEN RawStates ELSE {""} :
         LET prop == matched_entities[cpos][1]
             c == Convert(prop, state, cdevice.conversion_factors)
         IN  /\ reads' = Append(reads, [prop |-> prop, status |-> status,
                                        state |-> state])
             /\ collected_data' =
                    IF status = 200 /\ c.ok
                    THEN [p \in DOMAIN collected_data \cup {prop} |->
                             IF p = prop THEN c.value ELSE collected_data[p]]
                    ELSE collected_data
             /\ cpos' = IF status = 200 /\ c.ok THEN cpos + 1
                        ELSE Len(matched_entities) + 1
    /\ UNCHANGED <<sub_devices, sessionVars, bridgeVars, gatewayVars, resolverVars,
                   cdevice, matched_entities, cpc>>

\* one iteration of the loop of lines 28-73: the request, the conversion and
\* the assignment; an answer other than 200, a raised exception and a text
\* that is not a number leave collected_data alone
CollectProperty ==
    /\ cpc = "collecting"
    /\ cpos <= Len(matched_entities)
    /\ \E status \in ReadStatuses :
       \E state \in IF status = 200 THEN RawStates ELSE {""} :
         LET prop == matched_entities[cpos][1]
             c == Convert(prop, state, cdevice.conversion_factors)
         IN  /\ reads' = Append(reads, [prop |-> prop, status |-> status,
                                        state |-> state])
             /\ collected_data' =
                    IF status = 200 /\ c.ok
                    THEN [p \in DOMAIN collected_data \cup {prop} |->
                             IF p = prop THEN c.value ELSE collected_data[p]]
                    ELSE collected_data
    /\ cpos' = cpos + 1
    /\ UNCHANGED <<sub_devices, sessionVars, bridgeVars, gatewayVars, resolverVars,
                   cdevice, matched_entities, cpc>>

\* a call of collect_device_data with a device of the resolver's result and
\* the entities matched for it; a dict does not fix the order of the items
\* here, so every order is taken
CollectResolved ==
    /\ rpc = "done"
    /\ cpc \in {"idle", "done"}
    /\ \E i \in DOMAIN matched_devices :
         LET bound == matched_devices[i].entities
             n == Cardinality(DOMAIN bound)
         IN  \E q \in {x \in [1..n -> DOMAIN bound] :
                          \A a, b \in 1..n : a # b => x[a] # x[b]} :
               /\ cdevice' = matched_devices[i].config
               /\ matched_entities' = [k \in 1..n |-> <<q[k], bound[q[k]]>>]
    /\ collected_data' = <<>>
    /\ reads' = <<>>
    /\ cpos' = 1
    /\ cpc' = "collecting"
    /\ UNCHANGED <<sub_devices, sessionVars, bridgeVars, gatewayVars, resolverVars>>

\* line 75: return collected_data
CollectReturn ==
    /\ cpc = "collecting"
    /\ cpos > Len(matched_entities)
    /\ cpc' = "done"
    /\ UNCHANGED <<sub_devices, sessionVars, bridgeVars, gatewayVars, resolverVars,
                   cdevice, matched_entities, collected_data, reads, cpos>>

----------------------------------------------------------------------------
(* Gateway loop: main.py *)

MaxCycles == 2
MaxStates == 2

\* a key a device of options.json may lack is listed in its field "missing"
GwSensor ==
    [id |-> "th1", device_type |-> "sensor", ha_entity_prefix |-> "sensor.th1_",
     supported_properties |-> {"temp", "hum", "batt"},
     product_key |-> "pkB", device_name |-> "th1", device_secret |-> "s1",
     enabled |-> TRUE, missing |-> {}]

GwSwitch ==
    [id |-> "gsw", device_type |-> "switch", ha_entity_prefix |-> "switch.gsw_",
     supported_properties |-> {"state"},
     product_key |-> "pkA", device_name |-> "gsw", device_secret |-> "s2",
     enabled |-> TRUE, missing |-> {}]

GatewayCatalogs ==
    { <<GwSensor, [GwSwitch EXCEPT !.enabled = FALSE], GwSwitch>>,
      <<[GwSwitch EXCEPT !.device_secret = " "],
        [GwSensor EXCEPT !.device_type = "lamp"]>>,
      <<GwSwitch, [GwSensor EXCEPT !.missing = {"device_type"}]>>,
      <<GwSensor, [GwSwitch EXCEPT !.missing = {"enabled"}]>> }

\* elements of the answer of GET /api/states
GwStatePool ==
    { [entity_id |-> "sensor.th1_temperature", device_class |-> "temperature",
       state |-> "21.5"],
      [entity_id |-> "sensor.th1_battery", device_class |-> "battery",
       state |-> "85%"],
      [entity_id |-> "sensor.th1_humidity_2", device_class |-> "",
       state |-> "unavailable"],
      [entity_id |-> "switch.gsw_switch", device_class |-> "", state |-> "on"],
      [entity_id |-> "switch.gsw_led_1", device_class |-> "", state |-> "off"] }

GwStateLists == UNION {[1..n -> GwStatePool] : n \in 0..MaxStates}

\* client.connect: return code 0, another return code, or an exception
GwConnectResults == {"ok", "refused", "exception"}

\* self.entity_mapping, lines 43-53
entity_mapping ==
    << <<"temperature", "temp">>, <<"humidity", "hum">>, <<"battery", "batt">>,
       <<"switch", "state">>, <<"power", "power">>, <<"current", "current">> >>

EntityMappingHas(key) == \E i \in DOMAIN entity_mapping : entity_mapping[i][1] = key

EntityMappingGet(key) ==
    entity_mapping[CHOOSE i \in DOMAIN entity_mapping : entity_mapping[i][1] = key][2]

\* s.rstrip('0123456789_')
RECURSIVE RStripDigitsUnderscores(_)
RStripDigitsUnderscores(s) ==
    IF s = "" THEN s
    ELSE IF SubSeq(s, Len(s), Len(s)) \in Digits \cup {"_"}
    THEN RStripDigitsUnderscores(SubSeq(s, 1, Len(s) - 1))
    ELSE s

\* s.strip() of a text made of letters, digits and spaces
RECURSIVE StripSpaces(_)
StripSpaces(s) ==
    IF s = "" THEN s
    ELSE IF SubSeq(s, 1, 1) = " " THEN StripSpaces(SubSeq(s, 2, Len(s)))
    ELSE IF SubSeq(s, Len(s), Len(s)) = " "
    THEN StripSpaces(SubSeq(s, 1, Len(s) - 1))
    ELSE s

\* int(v) for the notation [-]digits; any other text raises ValueError
ParseInt(s) ==
    LET neg == StartsWith(s, "-")
        body == IF neg THEN SubSeq(s, 2, Len(s)) ELSE s
    IN  IF IsDigits(body)
        THEN [ok |-> TRUE,
              e4 |-> (IF neg THEN 0 - DigitsValue(body) ELSE DigitsValue(body)) * Scale]
        ELSE [ok |-> FALSE, e4 |-> 0]

\* the value_converters of the handlers, lines 244-270, by the kind of lambda
ValueConverters(device_type) ==
    IF device_type = "sensor"
    THEN [p \in {"temp", "hum", "batt"} |-> IF p = "batt" THEN "batt" ELSE "float"]
    ELSE IF device_type = "switch"
    THEN [p \in {"state"} |-> "state"]
    ELSE IF device_type = "socket"
    THEN [p \in {"state", "power", "current"} |->
             IF p = "state" THEN "state" ELSE "float"]
    ELSE [p \in {"state", "voltage", "current", "power", "leakage"} |->
             IF p = "state" THEN "state" ELSE "float"]

\* self.device_type_handlers, lines 32-37
HandledTypes == {"sensor", "switch", "socket", "breaker"}

NoValue == [type |-> "none", e4 |-> 0]

\* value_converters[prop_name](raw_value); ok = FALSE when it raises
ConvertWith(converters, prop_name, raw_value) ==
    IF prop_name \notin DOMAIN converters
    THEN [ok |-> FALSE, value |-> NoValue]
    ELSE IF converters[prop_name] = "state"
    THEN [ok |-> TRUE,
          value |-> [type |-> "int",
                     e4 |-> IF raw_value = "on" THEN Scale ELSE 0]]
    ELSE IF converters[prop_name] = "float"
    THEN LET f == ParseFloat(raw_value)
         IN  [ok |-> f.ok,
              value |-> IF f.ok THEN [type |-> "float", e4 |-> f.e4] ELSE NoValue]
    ELSE LET digits == IF raw_value # ""
                          /\ SubSeq(raw_value, Len(raw_value), Len(raw_value)) = "%"
                       THEN SubSeq(raw_value, 1, Len(raw_value) - 1)
                       ELSE raw_value
             n == ParseInt(digits)
         IN  [ok |-> n.ok,
              value |-> IF n.ok THEN [type |-> "int", e4 |-> n.e4] ELSE NoValue]

\* lines 170-207: the property name an entity is taken for, "" when the class
\* attribute is mapped to a property the device does not support
GwPropertyName(device_config, entity) ==
    LET device_class == Lower(entity.device_class)
        raw_prop == Lower(RemoveAll(entity.entity_id, device_config.ha_entity_prefix))
        clean_prop == RStripDigitsUnderscores(raw_prop)
    IN  IF EntityMappingHas(device_class)
        THEN IF EntityMappingGet(device_class) \in device_config.supported_properties
             THEN EntityMappingGet(device_class) ELSE ""
        ELSE IF EntityMappingHas(clean_prop) THEN EntityMappingGet(clean_prop)
        ELSE clean_prop

\* the loop of lines 168-207 over the entities from index i on
RECURSIVE BuildProperties(_, _, _, _, _)
BuildProperties(device_config, ents, value_converters, i, properties) ==
    IF i > Len(ents) THEN properties
    ELSE LET prop_name == GwPropertyName(device_config, ents[i])
             c == ConvertWith(value_converters, prop_name, ents[i].state)
         IN  BuildProperties(device_config, ents, value_converters, i + 1,
                 IF prop_name \in device_config.supported_properties /\ c.ok
                 THEN [p \in DOMAIN properties \cup {prop_name} |->
                          IF p = prop_name THEN c.value ELSE properties[p]]
                 ELSE properties)

PublishCommonAlways(device_config, ents, value_converters, connectResult) ==
    IF connectResult # "ok"
    THEN [built |-> FALSE, properties |-> <<>>, published |-> FALSE]
    ELSE [built |-> TRUE,
          properties |-> BuildProperties(device_config, ents, value_converters,
                                         1, <<>>),
          published |-> TRUE]

\* _publish_common: nothing is built when the connect fails, and nothing is
\* published when no property was built (lines 210-214)
PublishCommon(device_config, ents, value_converters, connectResult) ==
    IF connectResult # "ok"
    THEN [built |-> FALSE, properties |-> <<>>, published |-> FALSE]
    ELSE LET properties == BuildProperties(device_config, ents,
                                           value_converters, 1, <<>>)
         IN  [built |-> TRUE, properties |-> properties,
              published |-> properties # <<>>]

\* self.ha_entities[device_id] = item
DictSet(items, item) ==
    IF \E k \in DOMAIN items : items[k].id = item.id
    THEN [k \in DOMAIN items |-> IF items[k].id = item.id THEN item ELSE items[k]]
    ELSE Append(items, item)

\* the loop of lines 76-101 over the devices from index i on; raised is TRUE
\* when device['enabled'] raises KeyError
RECURSIVE DiscoverDevices(_, _, _, _)
DiscoverDevices(devices, states, i, items) ==
    IF i > Len(devices) THEN [raised |-> FALSE, items |-> items]
    ELSE IF "enabled" \in devices[i].missing
    THEN [raised |-> TRUE, items |-> items]
    ELSE IF ~devices[i].enabled
    THEN DiscoverDevices(devices, states, i + 1, items)
    ELSE DiscoverDevices(devices, states, i + 1,
             DictSet(items,
                 [id |-> devices[i].id, device_config |-> devices[i],
                  entities |-> SelectSeq(states,
                      LAMBDA e : StartsWith(e.entity_id,
                                            devices[i].ha_entity_prefix))]))

GatewayInit ==
    /\ ha_entities = <<>>
    /\ gpc = "discover"
    /\ gpos = 0
    /\ pushlog = <<>>
    /\ cycle = 1

\* discover_ha_entities: a failed request returns with ha_entities as it was
DiscoverHaEntities ==
    /\ gpc = "discover"
    /\ \/ /\ UNCHANGED ha_entities
          /\ gpc' = "push"
       \/ \E states \in GwStateLists :
            LET d == DiscoverDevices(sub_devices, states, 1, ha_entities)
            IN  /\ ha_entities' = d.items
                /\ gpc' = IF d.raised THEN "exited" ELSE "push"
    /\ gpos' = 1
    /\ pushlog' = <<>>
    /\ UNCHANGED <<sub_devices, sessionVars, bridgeVars, resolverVars,
                   collectorVars, cycle>>

\* one iteration of the loop of push_to_163_platform; device_config
\* ['device_type'] raises KeyError when the key is missing
PushDevice ==
    /\ gpc = "push"
    /\ gpos <= Len(ha_entities)
    /\ LET data == ha_entities[gpos]
           device_config == data.device_config
           skipped ==
               \/ ~device_config.enabled
               \/ StripSpaces(device_config.product_key) = ""
               \/ StripSpaces(device_config.device_name) = ""
               \/ StripSpaces(device_config.device_secret) = ""
               \/ data.entities = <<>>
           entry(called, r) ==
               [id |-> data.id, called |-> called, built |-> r.built,
                properties |-> r.properties, published |-> r.published]
           none == [built |-> FALSE, properties |-> <<>>, published |-> FALSE]
       IN  IF skipped
           THEN /\ pushlog' = Append(pushlog, entry(FALSE, none))
                /\ gpos' = gpos + 1
                /\ gpc' = gpc
           ELSE IF "device_type" \in device_config.missing
           THEN /\ gpc' = "exited"
                /\ UNCHANGED <<pushlog, gpos>>
           ELSE IF device_config.device_type \notin HandledTypes
           THEN /\ pushlog' = Append(pushlog, entry(FALSE, none))
                /\ gpos' = gpos + 1
                /\ gpc' = gpc
           ELSE \E connectResult \in GwConnectResults :
                  /\ pushlog' = Append(pushlog,
                         entry(TRUE,
                               PublishCommon(device_config, data.entities,
                                   ValueConverters(device_config.device_type),
                                   connectResult)))
                  /\ gpos' = gpos + 1
                  /\ gpc' = gpc
    /\ UNCHANGED <<sub_devices, sessionVars, bridgeVars, resolverVars,
                   collectorVars, ha_entities, cycle>>

\* the loop of push_to_163_platform is over
PushReturn ==
    /\ gpc = "push"
    /\ gpos > Len(ha_entities)
    /\ gpc' = "sleep"
    /\ UNCHANGED <<sub_devices, sessionVars, bridgeVars, resolverVars,
                   collectorVars, ha_entities, gpos, pushlog, cycle>>

\* run, lines 287-291: time.sleep(wy_push_interval), then the next cycle
NextCycle ==
    /\ gpc = "sleep"
    /\ cycle < MaxCycles
    /\ cycle' = cycle + 1
    /\ gpc' = "discover"
    /\ UNCHANGED <<sub_devices, sessionVars, bridgeVars, resolverVars,
                   collectorVars, ha_entities, gpos, pushlog>>

----------------------------------------------------------------------------
(* Specifications *)

vars == <<sub_devices, sessionVars, bridgeVars, resolverVars, collectorVars, gatewayVars>>

Init ==
    /\ sub_devices \in SessionCatalogs
    /\ SessionInit
    /\ BridgeInit
    /\ ResolverInit
    /\ CollectorInit
    /\ GatewayInit

\* the session life cycle: connect, reconnect with backoff, shutdown
Next ==
    \/ \E t \in Threads : Connect(t)
    \/ \E t \in Threads : ConnectReturn(t)
    \/ \E c \in Clients : OnConnect(c)
    \/ \E c \in Clients : OnDisconnect(c)
    \/ DisconnectBegin
    \/ DisconnectEnd

Spec == Init /\ [][Next]_vars

\* the steps a thread takes by itself happen: a sleep ends, connect() returns
FairSpec ==
    /\ Spec
    /\ \A t \in Threads : WF_vars(Connect(t))
    /\ \A t \in Threads : WF_vars(ConnectReturn(t))

\* the command bridge in the session of the first client
BridgeNext ==
    \/ Connect(CallerThread)
    \/ ConnectReturn(CallerThread)
    \/ \E c \in Clients : OnConnect(c)
    \/ \E c \in Clients : OnDisconnect(c)
    \/ \E c \in Clients : OnMessage(c)

BridgeSpec == Init /\ [][BridgeNext]_vars

\* the entity resolver on a catalog and entity lists of bounded length
ResolverSpecInit ==
    /\ sub_devices \in ResolverCatalogs
    /\ SessionInit
    /\ BridgeInit
    /\ ha_states \in EntityInputs
    /\ entities = <<>>
    /\ matched_devices = <<>>
    /\ rpos = 0
    /\ rpc = "idle"
    /\ results = <<>>
    /\ retry = OneAttempt
    /\ load_log = <<>>
    /\ CollectorInit
    /\ GatewayInit

ResolverNext ==
    \/ Discover
    \/ ProcessEntity
    \/ FinishMatch

ResolverSpec == ResolverSpecInit /\ [][ResolverNext]_vars

\* the collector, over every device and every dict of matched entities
CollectorSpecInit ==
    /\ cdevice \in CollectorDevices
    /\ matched_entities \in MatchedInputs(cdevice)
    /\ sub_devices = <<cdevice>>
    /\ SessionInit
    /\ BridgeInit
    /\ ResolverInit
    /\ collected_data = <<>>
    /\ reads = <<>>
    /\ cpos = 0
    /\ cpc = "idle"
    /\ GatewayInit

CollectorNext ==
    \/ CollectStart
    \/ CollectProperty
    \/ CollectReturn

CollectorSpec == CollectorSpecInit /\ [][CollectorNext]_vars

\* resolution followed by collection from its result, on one thread
PipeSocket ==
    [id |-> "plug1", type |-> "socket", ha_entity_prefix |-> "plug1",
     supported_properties |-> {"power"},
     conversion_factors |-> [p \in {"power"} |-> Factor(1, 10)],
     product_key |-> "pkA", device_name |-> "plug1", enabled |-> TRUE]

PipeSensor ==
    [id |-> "env1", type |-> "sensor", ha_entity_prefix |-> "sensor.hz2_01_",
     supported_properties |-> {"temp"},
     conversion_factors |-> NoFactors,
     product_key |-> "pkB", device_name |-> "env1", enabled |-> TRUE]

PipelineCatalogs ==
    { <<PipeSensor, [PipeSocket EXCEPT !.enabled = FALSE, !.id = "plug0"],
        PipeSocket>> }

PipelinePool ==
    { [entity_id |-> "sensor.hz2_01_temperature",
       device_class |-> "temperature", friendly_name |-> "HZ2 Temperature"],
      [entity_id |-> "sensor.plug1_power_p3",
       device_class |-> "", friendly_name |-> "Plug"] }

PipelineSpecInit ==
    /\ sub_devices \in PipelineCatalogs
    /\ SessionInit
    /\ BridgeInit
    /\ ha_states \in UNION {[1..n -> PipelinePool] : n \in 0..MaxEntities}
    /\ entities = <<>>
    /\ matched_devices = <<>>
    /\ rpos = 0
    /\ rpc = "idle"
    /\ results = <<>>
    /\ retry = OneAttempt
    /\ load_log = <<>>
    /\ CollectorInit
    /\ GatewayInit

PipelineNext ==
    \/ cpc # "collecting" /\ Discover
    \/ cpc # "collecting" /\ ProcessEntity
    \/ cpc # "collecting" /\ FinishMatch
    \/ CollectResolved
    \/ CollectProperty
    \/ CollectReturn

PipelineSpec == PipelineSpecInit /\ [][PipelineNext]_vars

\* discover() under every retry configuration, on short entity lists
LoaderSpecInit ==
    /\ sub_devices \in PipelineCatalogs
    /\ SessionInit
    /\ BridgeInit
    /\ ha_states \in UNION {[1..n -> PipelinePool] : n \in 0..1}
    /\ entities = <<>>
    /\ matched_devices = <<>>
    /\ rpos = 0
    /\ rpc = "idle"
    /\ results = <<>>
    /\ retry \in RetryConfigs
    /\ load_log = <<>>
    /\ CollectorInit
    /\ GatewayInit

LoaderSpec == LoaderSpecInit /\ [][ResolverNext]_vars

\* the gateway loop of main.py
GatewaySpecInit ==
    /\ sub_devices \in GatewayCatalogs
    /\ SessionInit
    /\ BridgeInit
    /\ ResolverInit
    /\ CollectorInit
    /\ ha_entities = <<>>
    /\ gpc = "discover"
    /\ gpos = 0
    /\ pushlog = <<>>
    /\ cycle = 1

GatewayNext ==
    \/ DiscoverHaEntities
    \/ PushDevice
    \/ PushReturn
    \/ NextCycle

GatewaySpec == GatewaySpecInit /\ [][GatewayNext]_vars

----------------------------------------------------------------------------
(* Claims about the command bridge, checked under BridgeSpec *)

\* C1: every message delivered on a subscribed command topic, whatever its
\* payload, is answered with exactly one published reply.
C1_ExactlyOneReply ==
    (msg # NoMsg /\ msg.topic \in SubscribedTopics(sub_devices))
        => Len(replies) = 1

\* C2: a command with state = 1 for a switch device whose control entity is
\* found makes exactly one action request, turn_on; when that request is
\* answered with 200 there is exactly one reply, with code 200 and
\* data.state = 1, and exactly one property post, with state = 1.
C2_CommandRoundTrip ==
    \A i \in DOMAIN sub_devices :
        LET d == sub_devices[i]
            actions == SelectSeq(haCalls, LAMBDA h : h.req # "get_states")
        IN  ( /\ msg # NoMsg
              /\ d.enabled /\ d.type = "switch"
              /\ msg.topic \in {SetTopic(d), CommonTopic(d)}
              /\ msg.payload.form = "object"
              /\ msg.payload.params # "number"
              /\ msg.payload.state = 1
              /\ msg.lookupStatus = 200
              /\ \E k \in DOMAIN msg.entities :
                    /\ StartsWith(msg.entities[k], d.ha_entity_prefix)
                    /\ StartsWith(msg.entities[k], "switch.")
                    /\ Contains(msg.entities[k], "on") )
            => /\ Len(actions) = 1
               /\ actions[1].req = "turn_on"
               /\ msg.actionStatus = 200
                    => /\ Len(replies) = 1
                       /\ replies[1].code = 200
                       /\ replies[1].data = {<<"state", 1>>}
                       /\ Len(reports) = 1
                       /\ reports[1].params = {<<"state", 1>>}
                       /\ reports[1].topic[Len(reports[1].topic)] = "post"

C2_Witness ==
    /\ msg # NoMsg
    /\ msg.topic = CommonTopic(SwitchDev)
    /\ msg.payload.form = "object"
    /\ msg.payload.state = 1
    /\ msg.actionStatus = 200
    /\ Len(haCalls) = 2
    /\ Len(reports) = 1

\* C3: a command whose (productKey, deviceName) pair belongs to no device of
\* the catalog gets exactly one reply, its code is not 200, and no request is
\* made to the source system.
C3_UnresolvableCommand ==
    ( /\ msg # NoMsg
      /\ msg.payload.form = "object"
      /\ Len(msg.topic) >= 3
      /\ msg.topic[1] = "sys"
      /\ \A i \in DOMAIN sub_devices :
            ~ ( /\ sub_devices[i].product_key = msg.topic[2]
                /\ sub_devices[i].device_name = msg.topic[3] ) )
    => /\ Len(replies) = 1
       /\ replies[1].code # 200
       /\ haCalls = <<>>

C3_Witness ==
    /\ msg # NoMsg
    /\ Len(msg.topic) >= 3
    /\ msg.topic[3] = "nodev"
    /\ msg.payload.form = "object"
    /\ msg.payload.state = 1
    /\ Len(replies) = 1
    /\ replies[1].message = "device_not_found"

----------------------------------------------------------------------------
(* Claims about the session, checked under Spec and FairSpec *)

\* C4: no wait slept before a reconnect attempt exceeds the ceiling of 60.
C4_WaitWithinCeiling ==
    \A i \in DOMAIN waits : waits[i] <= DelayLimit

\* C5: after a successful connection the first reconnect wait is the initial
\* value 1, and each further wait of the run doubles the previous one while
\* the previous one is below the ceiling.
C5_BackoffSequence ==
    (everConnected /\ waits # <<>>)
        => /\ waits[1] = InitialDelay
           /\ \A i \in 2..Len(waits) :
                 waits[i - 1] < DelayLimit => waits[i] = 2 * waits[i - 1]

\* C6: a step in which a connect is acknowledged with return code 0 leaves
\* the backoff at its initial value, and no other step lowers the backoff.
C6_ResetOnlyOnConnect ==
    [][ LET acknowledged ==
                \E c \in Clients : link[c] = "connecting" /\ link'[c] = "up"
        IN  /\ acknowledged => reconnect_delay' = InitialDelay
            /\ reconnect_delay' < reconnect_delay => acknowledged ]_vars

C6_Witness ==
    /\ link[3] = "up"
    /\ connected
    /\ reconnect_delay = InitialDelay

\* C7: absent a shutdown, a reconnect attempt that failed while the session
\* is down is eventually followed by another attempt (a thread in its backoff
\* sleep or in connect(), or a client waiting for its acknowledgement).
C7_ReconnectNeverGivesUp ==
    ( /\ everConnected
      /\ ~connected
      /\ lastConnect \in {"exception", "timeout"}
      /\ pc[CallerThread] = "ready" )
    ~> ( \/ \E c \in Clients : pc[c] \in {"sleep", "wait"}
         \/ \E c \in Clients : link[c] = "connecting"
         \/ connected
         \/ pc[CallerThread] # "ready" )

\* C8: a client whose connect was acknowledged, the first or any later one,
\* is subscribed to the property/set topic and to the CommonService topic of
\* every enabled device, both built from its product_key and device_name.
C8_SubscribedOnConnect ==
    \A c \in Clients :
        link[c] = "up" =>
            \A i \in DOMAIN sub_devices :
                sub_devices[i].enabled =>
                    /\ <<"sys", sub_devices[i].product_key,
                         sub_devices[i].device_name,
                         "thing", "service", "property", "set">> \in subs[c]
                    /\ <<"sys", sub_devices[i].product_key,
                         sub_devices[i].device_name,
                         "service", "CommonService">> \in subs[c]

C8_Witness ==
    /\ link[2] = "up"
    /\ Cardinality(subs[2]) = 4

----------------------------------------------------------------------------
(* Claims about the entity resolver, checked under ResolverSpec *)

\* C9: during and after a resolution cycle every bound property of a device
\* holds the first entity of the list (among those processed so far) that
\* yields this property for this device, so no later candidate replaced it;
\* a property holds one entity id, and a device has no more bound properties
\* than supported properties.
C9_FirstMatchKept ==
    \A i \in DOMAIN matched_devices :
        LET bound == matched_devices[i].entities
            yields(j, p) ==
                p \in DOMAIN MatchEntity(entities[j],
                                         EmptyMatch(sub_devices))[i].entities
        IN  /\ \A p \in DOMAIN bound :
                 \E j \in 1..(rpos - 1) :
                    /\ yields(j, p)
                    /\ \A k \in 1..(j - 1) : ~yields(k, p)
                    /\ bound[p] = entities[j].entity_id
            /\ Cardinality(DOMAIN bound)
                 <= Cardinality(matched_devices[i].config.supported_properties)

C9_Witness ==
    /\ rpc = "done"
    /\ Len(entities) >= 2
    /\ entities[1].entity_id = "sensor.hz2_01_temp_p3"
    /\ entities[2].entity_id = "sensor.hz2_01_temperature"
    /\ \E i \in DOMAIN matched_devices :
          /\ "temp" \in DOMAIN matched_devices[i].entities
          /\ matched_devices[i].entities["temp"] = "sensor.hz2_01_temp_p3"

\* C10: in every state during and after resolution the bound properties of a
\* device are among its supported_properties.
C10_KeysSupported ==
    \A i \in DOMAIN matched_devices :
        DOMAIN matched_devices[i].entities
            \subseteq matched_devices[i].config.supported_properties

C10_Witness ==
    /\ rpc = "matching"
    /\ rpos = 3
    /\ entities[1].entity_id = "sensor.plug1_power_consumption_p3"
    /\ entities[2].entity_id = "sensor.plug1_voltage_p1_2"
    /\ \E i \in DOMAIN matched_devices :
          /\ matched_devices[i].config.id = "plug1"
          /\ DOMAIN matched_devices[i].entities = {"energy"}


\* C11: a property bound to an entity whose device_class is
\* "power_consumption" is energy, for a device of any type and whatever the
\* entity's suffix or label contains.
C11_ConsumptionIsEnergy ==
    \A i \in DOMAIN matched_devices :
        \A p \in DOMAIN matched_devices[i].entities :
            \A j \in DOMAIN entities :
                ( /\ entities[j].entity_id = matched_devices[i].entities[p]
                  /\ Lower(entities[j].device_class) = "power_consumption" )
                => p = "energy"

\* C12: the property bound to the first entity of the list is the one chosen
\* by the first succeeding tier in the order class attribute, full cleaned
\* suffix, underscore token of the cleaned suffix, keyword in the label.
C12_TierOrder ==
    (rpc \in {"matching", "done"} /\ rpos >= 2 /\ Contains(entities[1].entity_id, "."))
    => \A i \in DOMAIN matched_devices :
         LET core == AfterFirstDot(entities[1].entity_id)
             prefix == matched_devices[i].cleaned_prefix
             cleaned ==
                 IF matched_devices[i].config.type \in environment_types
                 THEN StripUnderscores(RemoveAll(core, prefix))
                 ELSE StripUnderscores(RemoveAll(StripIndexSuffix(core), prefix))
             class == Lower(entities[1].device_class)
             label == Lower(entities[1].friendly_name)
             tiered ==
                 IF MappingGet(class) # None THEN MappingGet(class)
                 ELSE IF MappingGet(cleaned) # None THEN MappingGet(cleaned)
                 ELSE IF FirstMappedPart(SplitUnderscore(cleaned)) # None
                 THEN FirstMappedPart(SplitUnderscore(cleaned))
                 ELSE FriendlyNameMatch(label)
         IN  \A p \in DOMAIN matched_devices[i].entities :
                 matched_devices[i].entities[p] = entities[1].entity_id
                     => p = tiered

\* C13: the first entity of the list is bound to the same properties of the
\* same devices as the entity whose identifier has the trailing vendor index
\* (_p3, _p_3_2: "_p" and digit groups) stripped.
C13_IndexSuffixIgnored ==
    (rpc \in {"matching", "done"} /\ rpos >= 2)
    => LET id == entities[1].entity_id
           isIndex(t) ==
               /\ StartsWith(t, "_p")
               /\ Len(t) >= 3
               /\ SubSeq(t, Len(t), Len(t)) \in Digits
               /\ \A k \in 3..Len(t) :
                     /\ SubSeq(t, k, k) \in Digits \cup {"_"}
                     /\ SubSeq(t, k, k) = "_" => SubSeq(t, k + 1, k + 1) # "_"
           starts == {k \in 1..Len(id) : isIndex(SubSeq(id, k, Len(id)))}
           stripped ==
               IF starts = {} THEN id
               ELSE SubSeq(id, 1, (CHOOSE k \in starts : \A m \in starts : k <= m) - 1)
           alone ==
               MatchEntity([entities[1] EXCEPT !.entity_id = stripped],
                           EmptyMatch(sub_devices))
       IN  \A i \in DOMAIN matched_devices :
              {p \in DOMAIN matched_devices[i].entities :
                  matched_devices[i].entities[p] = id}
              = {p \in DOMAIN alone[i].entities : alone[i].entities[p] = stripped}


C15_ReplyCorrelated ==
    \A k \in DOMAIN replies :
        /\ replies[k].topic = <<"sys", msg.topic[2], msg.topic[3],
                                "service", "CommonService_reply">>
        /\ msg.payload.id # NoId => replies[k].id = msg.payload.id

C15_Witness ==
    /\ msg # NoMsg
    /\ msg.topic = SetTopic(SwitchDev)
    /\ msg.payload.form = "object"
    /\ msg.payload.id = "id7"
    /\ Len(replies) = 1
    /\ replies[1].id = "id7"

\* C16: among the publishes made for a command, a property post comes only
\* after a reply with code 200, and no property post is made when a reply
\* is a failure.
C16_ReplyBeforeReport ==
    LET isReport(m) == m.topic[Len(m.topic)] = "post"
    IN  /\ \A k \in DOMAIN outbox :
              isReport(outbox[k])
              => \E j \in 1..(k - 1) :
                     ~isReport(outbox[j]) /\ outbox[j].code = 200
        /\ (\E k \in DOMAIN outbox :
                ~isReport(outbox[k]) /\ outbox[k].code # 200)
           => \A k \in DOMAIN outbox : ~isReport(outbox[k])

C16_Witness ==
    /\ msg # NoMsg
    /\ Len(outbox) = 2
    /\ outbox[1].topic = ReplyTopic("pkA", "sw1")
    /\ outbox[2].topic = PostTopic(SwitchDev)

\* C17: a reply with code 200 is sent only when the state of the entity in
\* the source system after the action is the requested one.
C17_SuccessOnlyWhenConfirmed ==
    \A k \in DOMAIN replies :
        replies[k].code = 200
        => msg.observed = (IF msg.payload.state = 1 THEN "on" ELSE "off")

\* C18: a command with a state for an enabled switch or socket device, for
\* which the listing of the source system holds no control entity, gets one
\* reply, a failure that says no control entity was found, and leads to no
\* action request.
C18_NoControlEntity ==
    \A i \in DOMAIN sub_devices :
        LET d == sub_devices[i]
        IN  ( /\ msg # NoMsg
              /\ d.enabled /\ d.type \in {"switch", "socket"}
              /\ msg.topic \in {SetTopic(d), CommonTopic(d)}
              /\ msg.payload.form = "object"
              /\ msg.payload.params # "number"
              /\ msg.payload.state # NoState
              /\ msg.lookupStatus = 200
              /\ \A k \in DOMAIN msg.entities :
                    ~ ( /\ StartsWith(msg.entities[k], d.ha_entity_prefix)
                        /\ StartsWith(msg.entities[k], "switch.")
                        /\ Contains(msg.entities[k], "on") ) )
            => /\ Len(replies) = 1
               /\ replies[1].code # 200
               /\ replies[1].message = "no_control_entity"
               /\ \A h \in DOMAIN haCalls : haCalls[h].req = "get_states"
               /\ reports = <<>>

C18_Witness ==
    /\ msg # NoMsg
    /\ msg.topic = CommonTopic(SwitchDev)
    /\ msg.payload.form = "object"
    /\ msg.payload.state = 1
    /\ msg.lookupStatus = 200
    /\ msg.entities = <<"switch.sw1_toggle", "light.sw1_on", "switch.sk1_on">>
    /\ Len(replies) = 1
    /\ Len(haCalls) = 1


----------------------------------------------------------------------------
(* Claims about the telemetry collector, checked under CollectorSpec *)

\* C19: the data collected for a socket device that supports current and has
\* no matched entity for it contains current, with the value 0 * factor = 0.
C19_DefaultSubstitution ==
    ( /\ cpc = "done"
      /\ cdevice.type = "socket"
      /\ "current" \in cdevice.supported_properties
      /\ \A k \in DOMAIN matched_entities : matched_entities[k][1] # "current" )
    => /\ "current" \in DOMAIN collected_data
       /\ collected_data["current"].e4 = 0

\* C20: the value collected for the state property is the one collected with
\* factor 1, whatever the state text read and whatever factor the device
\* configures for state.
C20_StateNotScaled ==
    \A k \in DOMAIN reads :
        ( /\ reads[k].prop = "state"
          /\ reads[k].status = 200
          /\ "state" \in DOMAIN collected_data )
        => collected_data["state"] = Convert("state", reads[k].state, NoFactors).value


\* C21: a read of the state property that answers "on" is collected as 1 and
\* one that answers "off" as 0, for a device of any type; for a breaker
\* device a read that answers "trip" is collected as 2.
C21_BooleanConversion ==
    \A k \in DOMAIN reads :
        (reads[k].prop = "state" /\ reads[k].status = 200 /\ cpos > k)
        => /\ reads[k].state = "on"
              => /\ "state" \in DOMAIN collected_data
                 /\ collected_data["state"].e4 = 1 * Scale
           /\ reads[k].state = "off"
              => /\ "state" \in DOMAIN collected_data
                 /\ collected_data["state"].e4 = 0
           /\ (reads[k].state = "trip" /\ cdevice.type = "breaker")
              => /\ "state" \in DOMAIN collected_data
                 /\ collected_data["state"].e4 = 2 * Scale


\* C22: a property whose read answered with the not-ready text "unavailable"
\* is read again before the call returns without it.
C22_RepollWhileNotReady ==
    cpc = "done"
    => \A k \in DOMAIN reads :
           ( /\ reads[k].status = 200
             /\ reads[k].state = "unavailable"
             /\ reads[k].prop \notin DOMAIN collected_data )
           => \E j \in DOMAIN reads : j # k /\ reads[j].prop = reads[k].prop

\* C23: when the call returns, every item of matched_entities has been read,
\* the returned dict holds exactly the properties whose read answered 200
\* with "on", "off" or a number, and none of them is lost to the failed read
\* of another property.
C23_FailureOmitsOnlyThatProperty ==
    LET good(k) ==
            /\ reads[k].status = 200
            /\ reads[k].state \in {"on", "off"} \/ ParseFloat(reads[k].state).ok
    IN  cpc = "done"
        => /\ Len(reads) = Len(matched_entities)
           /\ \A k \in DOMAIN reads : reads[k].prop = matched_entities[k][1]
           /\ DOMAIN collected_data
                 = {reads[k].prop : k \in {j \in DOMAIN reads : good(j)}}

C23_Witness ==
    /\ cpc = "done"
    /\ Len(reads) = 2
    /\ reads[1].status # 200
    /\ reads[2].status = 200 /\ reads[2].state = "2.5"
    /\ DOMAIN collected_data = {reads[2].prop}


----------------------------------------------------------------------------
(* Claims about the gateway loop, checked under GatewaySpec *)

\* C24: in a push cycle, a device for which no property was built gets no
\* telemetry message, and no device is handled twice in the cycle.
C24_EmptyPayloadSkipped ==
    /\ \A k \in DOMAIN pushlog :
          pushlog[k].properties = <<>> => ~pushlog[k].published
    /\ \A j, k \in DOMAIN pushlog : j # k => pushlog[j].id # pushlog[k].id

C24_Witness ==
    /\ Len(pushlog) = 2
    /\ pushlog[1].built /\ pushlog[1].properties = <<>> /\ ~pushlog[1].published
    /\ pushlog[2].published
    /\ gpc = "sleep"


\* C29: the loop of run never ends: an exception raised in the discovery
\* step or in the push step of a cycle does not leave run.
C29_LoopSurvivesExceptions == gpc # "exited"


----------------------------------------------------------------------------
(* Claims about resolution and collection together, checked under PipelineSpec *)

\* C25: no step of a resolution or of a collection changes a device of the
\* catalog: the catalog stays as it is, the configuration the resolver's
\* result holds for a device is that device of the catalog, and the device a
\* collection works on is a device of the catalog.
C25_DeviceSpecUnchanged ==
    /\ [](\A i \in DOMAIN matched_devices :
              matched_devices[i].config = EnabledDevices(sub_devices)[i])
    /\ [](cpc # "idle" => \E i \in DOMAIN sub_devices : cdevice = sub_devices[i])
    /\ [][sub_devices' = sub_devices]_vars

C25_Witness ==
    /\ Len(results) = 2
    /\ rpc = "done"
    /\ cpc = "done"
    /\ cdevice.id = "env1"
    /\ DOMAIN collected_data = {"temp"}


----------------------------------------------------------------------------
(* More claims about the command bridge, checked under BridgeSpec *)

----------------------------------------------------------------------------
(* More claims about the entity resolver, checked under ResolverSpec *)

\* match_entities_to_devices, lines 117-137: the entity loop from index k on
RECURSIVE MatchEntitiesFrom(_, _, _)
MatchEntitiesFrom(k, list, matched) ==
    IF k > Len(list) THEN matched
    ELSE MatchEntitiesFrom(k + 1, list, MatchEntity(list[k], matched))

\* match_entities_to_devices of a catalog that holds the one device only
ResolvedAlone(device, list) ==
    MatchEntitiesFrom(1, list, EmptyMatch(<<device>>))[1].entities

\* C27: when a resolution has finished, every device of the catalog has the
\* properties, bound to the entities, that it gets when it is resolved alone
\* over the same entity list.
C27_ResolvedAsAlone ==
    rpc = "done"
    => \A i \in DOMAIN matched_devices :
          matched_devices[i].entities
              = ResolvedAlone(matched_devices[i].config, entities)


----------------------------------------------------------------------------
(* More claims about the session, checked under Spec *)

\* C28: once disconnect() has returned, self.connected is False and stays
\* False, and no thread starts a connect() any more (no client is created).
C28_ShutdownTerminal ==
    /\ [](pc[CallerThread] = "stopped" => ~connected)
    /\ [][pc[CallerThread] = "stopped" => nclients' = nclients]_vars


----------------------------------------------------------------------------
(* Claims about loading the entity list, checked under LoaderSpec *)

\* C30: a load makes at most retry_attempts requests, makes no call after the
\* first request that succeeded, sleeps only after a request and before the
\* next one, and when no request of the load succeeded discover() has ended
\* with an empty result.
C30_LoadBounded ==
    LET gets == {i \in DOMAIN load_log : load_log[i].op = "get"}
    IN  /\ Cardinality(gets) <= retry.retry_attempts
        /\ \A i \in gets : Succeeded(load_log[i].arg) => i = Len(load_log)
        /\ \A i \in DOMAIN load_log \ gets :
               /\ i - 1 \in gets
               /\ i + 1 \in gets
        /\ (rpc # "idle" /\ \A i \in gets : ~Succeeded(load_log[i].arg))
           => rpc = "failed" /\ matched_devices = <<>>

C30_Witness ==
    /\ rpc = "failed"
    /\ retry.retry_attempts = 3
    /\ Len(load_log) = 5
    /\ load_log[2].op = "sleep" /\ load_log[4].op = "sleep"
    /\ load_log[5] = GetCall(500)
    /\ matched_devices = <<>>


----------------------------------------------------------------------------
(* Claims about the clients a session creates, checked under Spec *)

\* C31: at every moment at most one client has a running network loop
\* thread, so callbacks and reconnect sequences come from one client only.
C31_OneRunningClient == Cardinality(loops) <= 1


----------------------------------------------------------------------------
(* Claims about disabled devices, checked under BridgeSpec *)

====
